---- MODULE Spec2Model ----
(***************************************************************************)
(* Hybrid retrieval and result fusion of the product finder.               *)
(*                                                                         *)
(* Two implementations of the search pipeline live in the repository and  *)
(* both are modelled:                                                      *)
(*   "service"  SearchService in core_logic/search_service.py              *)
(*   "server"   the /search endpoint functions of server.py                *)
(* Both use HybridRetriever (core_logic/retriever.py) and                  *)
(* find_category_with_gemini_rag (core_logic/llm.py).                      *)
(*                                                                         *)
(* Text is a sequence of one-character strings, so that Python's           *)
(* substring test, lower(), strip() and split() are computed, not assumed. *)
(* Scores are exact fixed-point numbers in units of 10^-6 (Scale); the    *)
(* similarity rounded to 4 decimals is a multiple of 100 of these units.   *)
(* Python dicts are functions whose DOMAIN is the set of keys present.     *)
(***************************************************************************)
EXTENDS Integers, Sequences, FiniteSets, TLC

(* ------------------------------------------------------------------ *)
(* Bounds of the model                                                  *)
(* ------------------------------------------------------------------ *)
NumRequests == 2
MaxTopK == 4
MaxDivLen == 5
MaxMaxResults == 6

(* ------------------------------------------------------------------ *)
(* Program constants (config.py), in fixed point                        *)
(* ------------------------------------------------------------------ *)
Scale == 1000000
RETRIEVER_TOP_K == 3
HYBRID_SEMANTIC_WEIGHT == 6
HYBRID_KEYWORD_WEIGHT == 4
HYBRID_SCORE_THRESHOLD == 200000
SEARCH_TOP_K == 10
SIMILARITY_THRESHOLD == 300000
CATEGORY_BOOST_FACTOR == 12
TERM_MATCH_BOOST == 1
MAX_SEARCH_EXPANSION == 3
FLT_MAX == 1000000
SemanticDen == 3000

(* ------------------------------------------------------------------ *)
(* Python text and container primitives                                 *)
(* ------------------------------------------------------------------ *)
LowerChar(c) ==
    LET upper == <<"A", "B", "C", "D", "E", "F", "G", "H", "I", "J", "K", "L", "M",
                   "N", "O", "P", "Q", "R", "S", "T", "U", "V", "W", "X", "Y", "Z">>
        lower == <<"a", "b", "c", "d", "e", "f", "g", "h", "i", "j", "k", "l", "m",
                   "n", "o", "p", "q", "r", "s", "t", "u", "v", "w", "x", "y", "z">>
    IN  IF \E i \in 1..Len(upper) : upper[i] = c
        THEN lower[CHOOSE i \in 1..Len(upper) : upper[i] = c]
        ELSE c

StrLower(s) == [i \in 1..Len(s) |-> LowerChar(s[i])]

\* "needle in hay" for str
StrContains(needle, hay) ==
    \E i \in 0..(Len(hay) - Len(needle)) :
        \A j \in 1..Len(needle) : hay[i + j] = needle[j]

RECURSIVE StripLeft(_)
StripLeft(s) ==
    IF s # <<>> /\ Head(s) = " " THEN StripLeft(Tail(s)) ELSE s

RECURSIVE StripRight(_)
StripRight(s) ==
    IF s # <<>> /\ s[Len(s)] = " " THEN StripRight(SubSeq(s, 1, Len(s) - 1)) ELSE s

StrStrip(s) == StripRight(StripLeft(s))

\* str.split() with no argument: maximal runs of non-blank characters
RECURSIVE SplitFrom(_, _, _)
SplitFrom(s, cur, acc) ==
    IF s = <<>> THEN (IF cur = <<>> THEN acc ELSE Append(acc, cur))
    ELSE IF Head(s) = " "
         THEN SplitFrom(Tail(s), <<>>, IF cur = <<>> THEN acc ELSE Append(acc, cur))
         ELSE SplitFrom(Tail(s), Append(cur, Head(s)), acc)

StrSplit(s) == SplitFrom(s, <<>>, <<>>)

\* dict[k] = v
DictPut(d, k, v) == [x \in (DOMAIN d) \cup {k} |-> IF x = k THEN v ELSE d[x]]

\* dict.get(k, default)
DictGet(d, k, default) == IF k \in DOMAIN d THEN d[k] ELSE default

\* {k: v for k, v in d.items() if k != drop}
DictWithout(d, drop) == [x \in (DOMAIN d) \ {drop} |-> d[x]]

\* "x in list" (by ==)
ListContains(l, x) == \E i \in 1..Len(l) : l[i] = x

\* l[:n] for n >= 0
ListPrefix(l, n) == SubSeq(l, 1, IF n < Len(l) THEN n ELSE Len(l))

\* l[-n:] : for n = 0 Python reads l[0:], the whole list
ListLastN(l, n) ==
    IF n = 0 \/ n >= Len(l) THEN l ELSE SubSeq(l, Len(l) - n + 1, Len(l))

\* l[::-1]
ListReverse(l) == [i \in 1..Len(l) |-> l[Len(l) + 1 - i]]

Min2(a, b) == IF a < b THEN a ELSE b

SeqMin(s) == CHOOSE x \in {s[i] : i \in 1..Len(s)} : \A j \in 1..Len(s) : x <= s[j]
SeqMax(s) == CHOOSE x \in {s[i] : i \in 1..Len(s)} : \A j \in 1..Len(s) : x >= s[j]

\* round(num/den, 4) of a ratio in [0, 1], round-half-even, in units of 10^-4
Round4(num, den) ==
    LET q == (10000 * num) \div den
        r == (10000 * num) % den
    IN  IF 2 * r > den THEN q + 1
        ELSE IF 2 * r < den THEN q
        ELSE IF q % 2 = 0 THEN q ELSE q + 1

(* ------------------------------------------------------------------ *)
(* None, and the values the pipeline passes around                      *)
(* ------------------------------------------------------------------ *)
NoneVal == [py_none |-> TRUE]

IsNone(x) == x = NoneVal

\* truthiness of an Optional[dict] or a list
Truthy(x) == ~IsNone(x) /\ x # <<>>

(* ------------------------------------------------------------------ *)
(* HybridRetriever                                                      *)
(* ------------------------------------------------------------------ *)
\* __init__: one index entry per subcategory, in catalog order
RECURSIVE FlattenSubcategories(_, _)
FlattenSubcategories(category_name, subs) ==
    IF subs = <<>> THEN <<>>
    ELSE <<[category_name |-> category_name,
            subcategory_name |-> Head(subs).subcategory_name,
            subcategory_url |-> Head(subs).subcategory_url,
            keywords |-> {StrLower(kw) : kw \in Head(subs).keywords}]>>
         \o FlattenSubcategories(category_name, Tail(subs))

RECURSIVE BuildSubcategories(_)
BuildSubcategories(all_categories) ==
    IF all_categories = <<>> THEN <<>>
    ELSE FlattenSubcategories(Head(all_categories).category_name,
                              Head(all_categories).subcategories)
         \o BuildSubcategories(Tail(all_categories))

\* one point for every keyword found in the query
KeywordScoreCounting(subcat, query_lower) ==
    Cardinality({kw \in subcat.keywords : StrContains(kw, query_lower)})

\* 1.0 when any keyword is a substring of the lowercased query, else 0.0
KeywordScore(subcat, query_lower) ==
    IF \E kw \in subcat.keywords : StrContains(kw, query_lower) THEN 1 ELSE 0

\* semantic * 0.6 + keyword * 0.4, in units of 10^-6; a cosine similarity is
\* given in units of 1/SemanticDen, so that 1/3 (hybrid score exactly 0.2) exists
HybridScores(subcats, semantic_scores, query_lower) ==
    [i \in 1..Len(subcats) |->
        (semantic_scores[i] * HYBRID_SEMANTIC_WEIGHT * (Scale \div 1000))
            \div (SemanticDen \div 100)
        + KeywordScore(subcats[i], query_lower) * HYBRID_KEYWORD_WEIGHT * (Scale \div 10)]

\* keyword_scores, lines 39-44
KeywordScores(subcats, query_lower) ==
    [i \in 1..Len(subcats) |-> KeywordScore(subcats[i], query_lower)]

\* np.argsort: every ascending order of the indices; numpy's default sort
\* leaves the order of equal scores unspecified
ArgSorts(scores) ==
    LET n == Len(scores)
    IN  {p \in [1..n -> 1..n] :
            /\ \A i, j \in 1..n : i # j => p[i] # p[j]
            /\ \A i \in 1..n : i < n => scores[p[i]] <= scores[p[i + 1]]}

\* the comprehension "for i in top_k_indices if hybrid_scores[i] > threshold"
RECURSIVE KeepAboveThreshold(_, _)
KeepAboveThreshold(hybrid_scores, indices) ==
    IF indices = <<>> THEN <<>>
    ELSE (IF hybrid_scores[Head(indices)] > HYBRID_SCORE_THRESHOLD
          THEN <<Head(indices)>>
          ELSE <<>>)
         \o KeepAboveThreshold(hybrid_scores, Tail(indices))

\* argsort(...)[-top_k:][::-1]
TopKIndices(order, top_k) == ListReverse(ListLastN(order, top_k))

\* the index entries HybridRetriever.search selects, for one outcome of argsort
HybridSelected(subcats, semantic_table, user_query, top_k, order) ==
    LET query_lower == StrLower(user_query)
        hybrid_scores == HybridScores(subcats, semantic_table[query_lower], query_lower)
    IN  KeepAboveThreshold(hybrid_scores, TopKIndices(order, top_k))

\* HybridRetriever.search raises: for a non-empty query, cosine_similarity
\* (line 37) is given the index built by encode([]) when the catalog has no
\* subcategory, and sklearn rejects an array without rows with ValueError
RetrieverSearchRaises(subcats, user_query) ==
    user_query # <<>> /\ Len(subcats) = 0

\* the selections HybridRetriever.search can make
HybridSearch(subcats, semantic_table, user_query, top_k) ==
    IF user_query = <<>> THEN {<<>>}
    ELSE LET query_lower == StrLower(user_query)
             hybrid_scores == HybridScores(subcats, semantic_table[query_lower], query_lower)
         IN  {HybridSelected(subcats, semantic_table, user_query, top_k, order) :
                 order \in ArgSorts(hybrid_scores)}

\* the returned list: the selected entries without their keywords
StripKeywords(subcats, selected) ==
    [i \in 1..Len(selected) |-> DictWithout(subcats[selected[i]], "keywords")]

(* ------------------------------------------------------------------ *)
(* find_category_with_gemini_rag                                        *)
(* ------------------------------------------------------------------ *)
\* A JSON value carries its type:
\* a dict (field d), a list of dicts (field l) or null
JsonDict(d) == [type |-> "dict", d |-> d, l |-> <<>>]
JsonList(l) == [type |-> "list", d |-> [py_none |-> TRUE], l |-> l]
JsonNull == [type |-> "null", d |-> [py_none |-> TRUE], l |-> <<>>]

ErrorDict == JsonDict([error |-> <<"e">>])

\* http: what the request and the parse of its body come to
\*   [kind |-> "request_failed"]              requests.RequestException
\*   [kind |-> "parse_failed"]                JSONDecodeError, IndexError, KeyError
\*   [kind |-> "uncaught"]                    any other exception of the parse
\*   [kind |-> "json", value |-> v]           the parsed JSON value
FindCategoryWithGeminiRag(api_key_set, retrieved_context, http) ==
    IF ~api_key_set THEN [raised |-> FALSE, value |-> ErrorDict]
    ELSE IF retrieved_context = <<>> THEN [raised |-> FALSE, value |-> ErrorDict]
    ELSE CASE http.kind = "request_failed" -> [raised |-> FALSE, value |-> ErrorDict]
           [] http.kind = "parse_failed" -> [raised |-> FALSE, value |-> ErrorDict]
           [] http.kind = "uncaught" -> [raised |-> TRUE, value |-> ErrorDict]
           [] OTHER -> [raised |-> FALSE, value |-> http.value]

(* ------------------------------------------------------------------ *)
(* Vector search                                                        *)
(* ------------------------------------------------------------------ *)
\* the expansions of all matching terms joined by a space
RECURSIVE AllExpansions(_, _)
AllExpansions(expansions, query_lower) ==
    IF expansions = <<>> THEN query_lower
    ELSE IF StrContains(Head(expansions).term, query_lower)
         THEN LET rest == AllExpansions(Tail(expansions), query_lower)
              IN  IF rest = query_lower THEN Head(expansions).expansion
                  ELSE Head(expansions).expansion \o <<" ">> \o rest
         ELSE AllExpansions(Tail(expansions), query_lower)

\* _preprocess_query / preprocess_query: the first expansion key found in the
\* stripped, lowercased query replaces the whole query
RECURSIVE FirstExpansion(_, _)
FirstExpansion(expansions, query_lower) ==
    IF expansions = <<>> THEN query_lower
    ELSE IF StrContains(Head(expansions).term, query_lower)
         THEN Head(expansions).expansion
         ELSE FirstExpansion(Tail(expansions), query_lower)

PreprocessQuery(expansions, query) == FirstExpansion(expansions, StrLower(StrStrip(query)))

\* faiss index.search(query_vector, k): the k nearest rows, nearest first,
\* padded with (FLT_MAX, -1) when the index holds fewer than k vectors
FaissIndexSearch(index, processed_query, k) ==
    LET ranking == index.ranking[processed_query]
    IN  [i \in 1..k |-> IF i <= Len(ranking) THEN ranking[i]
                        ELSE [dist |-> FLT_MAX, idx |-> -1]]

\* index.search(query_vector, 0): the Python wrapper of faiss asserts k > 0
\* (AssertionError); a wrapper without the assertion returns no neighbour
FaissSearchOutcomes(k) == IF k > 0 THEN {"returned"} ELSE {"returned", "assertion"}

Distances(neighbours) == [i \in 1..Len(neighbours) |-> neighbours[i].dist]

\* equal distances taken for similarity 0.0
SimilarityAtLeastZeroWhenEqual(dist, min_dist, max_dist, threshold) ==
    IF max_dist > min_dist
    THEN (dist - min_dist) * (Scale \div 1000)
            <= ((Scale - threshold) \div 1000) * (max_dist - min_dist)
    ELSE 0 >= threshold

\* 1 - (dist - min)/(max - min) is at least threshold, compared before rounding
SimilarityAtLeast(dist, min_dist, max_dist, threshold) ==
    IF max_dist > min_dist
    THEN (dist - min_dist) * (Scale \div 1000)
            <= ((Scale - threshold) \div 1000) * (max_dist - min_dist)
    ELSE Scale >= threshold

\* round(similarity, 4)
RoundedSimilarity(dist, min_dist, max_dist) ==
    IF max_dist > min_dist
    THEN (10000 - Round4(dist - min_dist, max_dist - min_dist)) * 100
    ELSE Scale

\* product = metadata[idx].copy(); product[...] = ...
TaggedProduct(metadata, idx, similarity, rank) ==
    DictPut(DictPut(metadata[idx + 1], "similarity_score", similarity), "search_rank", rank)

\* SearchService._search_faiss_index, lines 80-87: the loop over the neighbours
RECURSIVE ServiceCollect(_, _, _, _, _)
ServiceCollect(metadata, neighbours, i, min_dist, max_dist) ==
    IF i > Len(neighbours) THEN <<>>
    ELSE LET n == neighbours[i]
         IN  (IF n.idx >= 0
                 /\ SimilarityAtLeast(n.dist, min_dist, max_dist, SIMILARITY_THRESHOLD)
              THEN <<TaggedProduct(metadata, n.idx,
                                   RoundedSimilarity(n.dist, min_dist, max_dist), i)>>
              ELSE <<>>)
             \o ServiceCollect(metadata, neighbours, i + 1, min_dist, max_dist)

\* metadata[idx] raises IndexError for a row id past the end of the list
ServiceIndexError(metadata, neighbours) ==
    \E i \in 1..Len(neighbours) : neighbours[i].idx >= Len(metadata)

\* list[i] of Python for a list of n elements: a negative i counts from the
\* end; the position (1-based) read, or 0 when IndexError is raised
PyListPosition(n, i) ==
    IF 0 <= i /\ i < n THEN i + 1
    ELSE IF i < 0 /\ -i <= n THEN n + i + 1
    ELSE 0

\* embedding.py SearchService.search(query_text, top_k): no index gives [];
\* otherwise metadata[i] for every row id the index returns
EmbeddingSearch(index, metadata, query_text, top_k) ==
    IF ~Truthy(index) THEN [raised |-> FALSE, value |-> <<>>]
    ELSE LET neighbours == FaissIndexSearch(index, query_text, top_k)
             positions == [i \in 1..Len(neighbours) |->
                              PyListPosition(Len(metadata), neighbours[i].idx)]
         IN  IF Len(neighbours) = 0 THEN [raised |-> FALSE, value |-> <<>>]
             ELSE IF \E i \in 1..Len(positions) : positions[i] = 0
             THEN [raised |-> TRUE, value |-> <<>>]
             ELSE [raised |-> FALSE,
                   value |-> [i \in 1..Len(positions) |-> metadata[positions[i]]]]

\* self.embedding_model.encode (line 61) and self.faiss_index.ntotal (line 69)
\* raise AttributeError on None
ServiceModelMissing(model) == model = "none"

ServiceIndexMissing(index) == IsNone(index)

\* embedding_model.encode raises in its thread
EncodeRaises(model) == model = "failing"

ServiceSearchK(top_k, ntotal) == Min2(top_k * MAX_SEARCH_EXPANSION, ntotal)

\* SearchService._search_faiss_index once the neighbours are back
ServiceVectorResults(metadata, neighbours) ==
    IF Len(neighbours) = 0 THEN [raised |-> FALSE, value |-> <<>>]
    ELSE IF ServiceIndexError(metadata, neighbours) THEN [raised |-> TRUE, value |-> <<>>]
    ELSE [raised |-> FALSE,
          value |-> ServiceCollect(metadata, neighbours, 1,
                                   SeqMin(Distances(neighbours)),
                                   SeqMax(Distances(neighbours)))]

(* ------------------------------------------------------------------ *)
(* Diversification                                                      *)
(* ------------------------------------------------------------------ *)
\* SearchService._diversify_results, first loop: the first result of each category
RECURSIVE FirstOfEachCategory(_, _)
FirstOfEachCategory(results, seen_categories) ==
    IF results = <<>> THEN <<>>
    ELSE LET category == DictGet(Head(results), "category", NoneVal)
         IN  IF category \notin seen_categories
             THEN <<Head(results)>>
                  \o FirstOfEachCategory(Tail(results), seen_categories \cup {category})
             ELSE FirstOfEachCategory(Tail(results), seen_categories)

\* second loop: "if res not in diversified: diversified.append(res)"
RECURSIVE AppendMissing(_, _)
AppendMissing(results, diversified) ==
    IF results = <<>> THEN diversified
    ELSE AppendMissing(Tail(results),
                       IF ListContains(diversified, Head(results))
                       THEN diversified
                       ELSE Append(diversified, Head(results)))

\* a diversification that keeps the first result of each category only
DiversifyResultsFirstOnly(results) ==
    IF Len(results) <= 3 THEN results
    ELSE FirstOfEachCategory(results, {})

\* SearchService._diversify_results
DiversifyResults(results) ==
    IF Len(results) <= 3 THEN results
    ELSE AppendMissing(results, FirstOfEachCategory(results, {}))

\* server.py diversify_results, first pass: a new category or a new brand
\* (first word of the title), at most 3 picks
RECURSIVE ServerFirstPass(_, _, _, _)
ServerFirstPass(results, diversified, seen_categories, seen_brands) ==
    IF results = <<>> THEN diversified
    ELSE LET category == StrLower(DictGet(Head(results), "category", <<>>))
             terms == StrSplit(StrLower(DictGet(Head(results), "title", <<>>)))
             brand == IF terms = <<>> THEN <<>> ELSE terms[1]
         IN  IF category \notin seen_categories \/ brand \notin seen_brands
             THEN IF Len(diversified) + 1 >= 3
                  THEN Append(diversified, Head(results))
                  ELSE ServerFirstPass(Tail(results), Append(diversified, Head(results)),
                                       seen_categories \cup {category},
                                       seen_brands \cup {brand})
             ELSE ServerFirstPass(Tail(results), diversified, seen_categories, seen_brands)

\* second pass: fill the remaining slots
RECURSIVE ServerSecondPass(_, _, _)
ServerSecondPass(results, diversified, remaining_slots) ==
    IF results = <<>> THEN diversified
    ELSE IF ~ListContains(diversified, Head(results)) /\ remaining_slots > 0
         THEN ServerSecondPass(Tail(results), Append(diversified, Head(results)),
                               remaining_slots - 1)
         ELSE ServerSecondPass(Tail(results), diversified, remaining_slots)

\* server.py diversify_results
ServerDiversifyResults(results) ==
    IF Len(results) <= 3 THEN results
    ELSE LET first == ServerFirstPass(results, <<>>, {}, {})
         IN  ServerSecondPass(results, first, Len(results) - Len(first))

(* ------------------------------------------------------------------ *)
(* server.py search_faiss_index                                         *)
(* ------------------------------------------------------------------ *)
\* lines 219-223: "if not embedding_model or not faiss_index or not
\* product_metadata" answers 503; an empty metadata list is falsy
ServerComponentsMissing(model, index, metadata) ==
    model = "none" \/ ~Truthy(index) \/ metadata = <<>>

ServerSearchK(max_results, metadata) == Min2(max_results * 3, Len(metadata))

\* the similarity threshold server.py line 264 reads from config
ServerSimilarityThreshold == HYBRID_SCORE_THRESHOLD

RECURSIVE ServerCollect(_, _, _, _, _)
ServerCollect(metadata, neighbours, i, min_dist, max_dist) ==
    IF i > Len(neighbours) THEN <<>>
    ELSE LET n == neighbours[i]
         IN  (IF n.idx >= 0 /\ n.idx < Len(metadata)
                 /\ SimilarityAtLeast(n.dist, min_dist, max_dist, ServerSimilarityThreshold)
              THEN <<TaggedProduct(metadata, n.idx,
                                   RoundedSimilarity(n.dist, min_dist, max_dist), i)>>
              ELSE <<>>)
             \o ServerCollect(metadata, neighbours, i + 1, min_dist, max_dist)

\* steps 4-6 of search_faiss_index once the neighbours are back
ServerVectorResults(metadata, neighbours, max_results) ==
    LET min_distance == IF Len(neighbours) > 0 THEN SeqMin(Distances(neighbours)) ELSE 0
        max_distance == IF Len(neighbours) > 0 THEN SeqMax(Distances(neighbours)) ELSE 1
        results == ServerCollect(metadata, neighbours, 1, min_distance, max_distance)
    IN  ListPrefix(ServerDiversifyResults(results), max_results)

(* ------------------------------------------------------------------ *)
(* Fusion                                                               *)
(* ------------------------------------------------------------------ *)
\* sum(1 for term in query_terms if term in title)
RECURSIVE TermMatches(_, _)
TermMatches(query_terms, title_lower) ==
    IF query_terms = <<>> THEN 0
    ELSE (IF StrContains(Head(query_terms), title_lower) THEN 1 ELSE 0)
         + TermMatches(Tail(query_terms), title_lower)

\* list.sort(key=score, reverse=True): stable, equal scores keep their order
RECURSIVE InsertByScore(_, _, _)
InsertByScore(sorted, x, key) ==
    IF sorted = <<>> THEN <<x>>
    ELSE IF Head(sorted)[key] >= x[key]
         THEN <<Head(sorted)>> \o InsertByScore(Tail(sorted), x, key)
         ELSE <<x>> \o sorted

RECURSIVE SortDescending(_, _, _)
SortDescending(list, key, acc) ==
    IF list = <<>> THEN acc
    ELSE SortDescending(Tail(list), key, InsertByScore(acc, Head(list), key))

\* the category name _fuse_and_rerank_results boosts on ("" when there is none)
ServiceCategoryName(selected_category) ==
    IF Truthy(selected_category)
    THEN StrLower(selected_category["subcategory_name"])
    ELSE <<>>

\* the boosted score stored without min(1.0, ...)
ServiceFuseOneUnclamped(res, category_name, query_terms) ==
    LET score0 == DictGet(res, "similarity_score", 0)
        boosted == category_name # <<>>
                   /\ StrContains(category_name, StrLower(DictGet(res, "category", <<>>)))
        score1 == IF boosted THEN (score0 * CATEGORY_BOOST_FACTOR) \div 10 ELSE score0
        res1 == IF boosted THEN DictPut(res, "category_match", TRUE) ELSE res
        term_matches == TermMatches(query_terms, StrLower(DictGet(res, "title", <<>>)))
        score2 == IF term_matches > 0
                  THEN (score1 * (10 + term_matches * TERM_MATCH_BOOST)) \div 10
                  ELSE score1
    IN  DictPut(res1, "final_score", score2)

\* lines 124-136: one result, boosted, clamped and tagged
ServiceFuseOne(res, category_name, query_terms) ==
    LET score0 == DictGet(res, "similarity_score", 0)
        boosted == category_name # <<>>
                   /\ StrContains(category_name, StrLower(DictGet(res, "category", <<>>)))
        score1 == IF boosted THEN (score0 * CATEGORY_BOOST_FACTOR) \div 10 ELSE score0
        res1 == IF boosted THEN DictPut(res, "category_match", TRUE) ELSE res
        term_matches == TermMatches(query_terms, StrLower(DictGet(res, "title", <<>>)))
        score2 == IF term_matches > 0
                  THEN (score1 * (10 + term_matches * TERM_MATCH_BOOST)) \div 10
                  ELSE score1
    IN  DictPut(res1, "final_score", Min2(Scale, score2))

\* _fuse_and_rerank_results up to and including enhanced_results.sort(...)
ServiceSorted(vector_results, selected_category, query) ==
    LET category_name == ServiceCategoryName(selected_category)
        query_terms == StrSplit(StrLower(query))
        enhanced_results == [i \in 1..Len(vector_results) |->
                                ServiceFuseOne(vector_results[i], category_name, query_terms)]
    IN  SortDescending(enhanced_results, "final_score", <<>>)

\* the sorted list numbered again from 1
FuseAndRerankResultsRenumbered(vector_results, selected_category, query) ==
    LET category_name == ServiceCategoryName(selected_category)
        query_terms == StrSplit(StrLower(query))
        enhanced_results == [i \in 1..Len(vector_results) |->
                                ServiceFuseOne(vector_results[i], category_name, query_terms)]
        sorted == SortDescending(enhanced_results, "final_score", <<>>)
    IN  DiversifyResults([i \in 1..Len(sorted) |-> DictPut(sorted[i], "search_rank", i)])

\* SearchService._fuse_and_rerank_results
FuseAndRerankResults(vector_results, selected_category, query) ==
    LET category_name == ServiceCategoryName(selected_category)
        query_terms == StrSplit(StrLower(query))
        enhanced_results == [i \in 1..Len(vector_results) |->
                                ServiceFuseOne(vector_results[i], category_name, query_terms)]
    IN  DiversifyResults(SortDescending(enhanced_results, "final_score", <<>>))

\* server.py fuse_search_results, lines 378-397: one result copy
ServerFuseOne(result, category_name, query_terms) ==
    LET base_score == DictGet(result, "similarity_score", 0)
        boosted == category_name # <<>>
                   /\ StrContains(category_name, StrLower(DictGet(result, "category", <<>>)))
        score1 == IF boosted THEN Min2(Scale, (base_score * 12) \div 10) ELSE base_score
        term_matches == TermMatches(query_terms, StrLower(DictGet(result, "title", <<>>)))
        score2 == IF term_matches > 0
                  THEN Min2(Scale, (score1 * (10 + term_matches)) \div 10)
                  ELSE score1
    IN  DictPut(DictPut(result, "category_match", boosted), "similarity_score", score2)

\* server.py fuse_search_results, steps 1-2: boosted and sorted
ServerSorted(vector_results, selected_category, query) ==
    LET category_name == StrLower(DictGet(selected_category, "subcategory_name", <<>>))
        query_terms == StrSplit(StrLower(query))
        enhanced_results == [i \in 1..Len(vector_results) |->
                                ServerFuseOne(vector_results[i], category_name, query_terms)]
    IN  SortDescending(enhanced_results, "similarity_score", <<>>)

\* server.py fuse_search_results, steps 1-3: boosted, sorted, diversified
ServerFusedRanked(vector_results, selected_category, query) ==
    IF vector_results = <<>> THEN <<>>
    ELSE LET category_name == StrLower(DictGet(selected_category, "subcategory_name", <<>>))
             query_terms == StrSplit(StrLower(query))
             enhanced_results == [i \in 1..Len(vector_results) |->
                                     ServerFuseOne(vector_results[i], category_name, query_terms)]
         IN  ServerDiversifyResults(
                 SortDescending(enhanced_results, "similarity_score", <<>>))

\* a slice that keeps one element too many
TruncateOffByOne(results, max_results) == ListPrefix(results, max_results + 1)

\* final_products[:max_results]
Truncate(results, max_results) == ListPrefix(results, max_results)

(* ------------------------------------------------------------------ *)
(* Category resolution after the classifier has answered                *)
(* ------------------------------------------------------------------ *)
\* lines 106-107 / 451-452: a non-empty list stands for its first element
FirstIfList(final_choice) ==
    IF final_choice.type = "list" /\ Len(final_choice.l) > 0
    THEN JsonDict(final_choice.l[1])
    ELSE final_choice

\* SearchService._find_best_category, lines 106-113
ServiceChoice(final_choice, retrieved_categories) ==
    LET first == FirstIfList(final_choice)
    IN  IF first.type = "dict" /\ "subcategory_name" \in DOMAIN first.d
        THEN first.d
        ELSE retrieved_categories[1]

\* server.py find_best_category, lines 444-460: the choice, or the status of
\* the error raised ('"error" in None' is a TypeError, answered 500)
ServerChoice(final_choice) ==
    IF final_choice.type = "null" THEN [status |-> 500, value |-> NoneVal]
    ELSE IF final_choice.type = "dict" /\ "error" \in DOMAIN final_choice.d
         THEN [status |-> 404, value |-> NoneVal]
    ELSE LET first == FirstIfList(final_choice)
         IN  IF first.type = "dict" /\ "subcategory_name" \in DOMAIN first.d
             THEN [status |-> 200, value |-> first.d]
             ELSE [status |-> 500, value |-> NoneVal]

(* ------------------------------------------------------------------ *)
(* The data the model runs on                                           *)
(* ------------------------------------------------------------------ *)
Categories ==
    << [category_name |-> <<"e", "l">>,
        subcategories |->
          << [subcategory_name |-> <<"T", "V">>, subcategory_url |-> <<"/", "t">>,
              keywords |-> {<<"T", "V">>}],
             [subcategory_name |-> <<"P", "h">>, subcategory_url |-> <<"/", "p">>,
              keywords |-> {<<"p", "h">>, <<"m", "o", "b">>}] >>],
       [category_name |-> <<"a", "u">>,
        subcategories |->
          << [subcategory_name |-> <<"H", "i">>, subcategory_url |-> <<"/", "h">>,
              keywords |-> {<<"h", "i">>}] >>] >>

Products ==
    << [title |-> <<"T", "V", " ", "a">>, category |-> <<"T", "V">>, link |-> 1],
       [title |-> <<"T", "V", " ", "b">>, category |-> <<"T", "V">>, link |-> 2],
       [title |-> <<"P", "h", " ", "a">>, category |-> <<"P", "h">>, link |-> 3],
       [title |-> <<"T", "V", " ", "s">>, category |-> <<"T", "V", " ", "s">>, link |-> 4],
       [title |-> <<"P", "h", " ", "b">>, category |-> <<"P", "h">>, link |-> 5] >>

Queries ==
    { <<"t", "v">>, <<"T", "v", " ", "a">>, <<"p", "h", " ", "p", "h">>, <<"z", "z">> }

\* config/query_expansions.json is not part of the sources: the file is absent
\* (an empty map) or holds one entry
ExpansionFiles ==
    { <<>>, <<[term |-> <<"p", "h">>, expansion |-> <<"p", "h", " ", "m", "o", "b">>]>> }

\* the literal map of server.py preprocess_query, abridged to two entries
ServerQueryExpansions ==
    << [term |-> <<"s", "m", "a", "r", "t">>, expansion |-> <<"s", "m", "a", "r", "t", " ", "x">>],
       [term |-> <<"a", "u", "d", "i", "o">>, expansion |-> <<"a", "u", "d", "i", "o", " ", "x">>] >>

ProcessedQueries ==
    {PreprocessQuery(e, q) : e \in ExpansionFiles \cup {ServerQueryExpansions}, q \in Queries}

\* a catalog of one subcategory and a query that holds both of its keywords
ScenarioCatalog ==
    << [category_name |-> <<"w">>,
        subcategories |->
          << [subcategory_name |->
                  <<"S", "a", "m", "s", "u", "n", "g", " ", "W", "a", "t", "c", "h">>,
              subcategory_url |-> <<"/", "w">>,
              keywords |-> {<<"s", "a", "m", "s", "u", "n", "g">>,
                            <<"w", "a", "t", "c", "h">>}] >>] >>

ScenarioQuery == <<"s", "a", "m", "s", "u", "n", "g", " ", "w", "a", "t", "c", "h">>

\* the queries of direct calls of the retriever
UnitQueries == Queries \cup {ScenarioQuery}

LoweredQueries == {StrLower(q) : q \in UnitQueries}

\* cosine similarities of a query against the three descriptors
SemanticTables ==
    { [q \in LoweredQueries |->
          IF StrContains(<<"t", "v">>, q) THEN <<2400, 1500, 300>>
          ELSE IF StrContains(<<"p", "h">>, q) THEN <<600, 2700, 1200>>
          ELSE <<300, 300, 300>>],
      [q \in LoweredQueries |-> <<1000, 1000, 1000>>],
      [q \in LoweredQueries |-> <<1500, 1500, 1500>>] }

\* the catalogs a retriever is built from: the three subcategories, or one
\* category without subcategories
Catalogs ==
    {Categories, <<[category_name |-> <<"e", "l">>, subcategories |-> <<>>]>>}

\* the index encode([]) builds for a catalog without subcategories
EmptySemanticTable == [q \in LoweredQueries |-> <<>>]

\* the similarities against the descriptors of a catalog of n subcategories
TablesFor(n) == {[q \in LoweredQueries |-> ListPrefix(t[q], n)] : t \in SemanticTables}

\* the neighbour order of the five rows, phones first for a phone query
RowOrder(text) ==
    IF StrContains(<<"p", "h">>, text) THEN <<2, 4, 0, 1, 3>> ELSE <<0, 1, 3, 2, 4>>

DistanceProfiles == { <<0, 3, 7, 8, 10>>, <<1, 1, 1, 1, 1>>, <<0, 1, 2, 3, 10>> }

FaissIndexes ==
    { [ntotal |-> 5,
       ranking |-> [t \in ProcessedQueries |->
                       [i \in 1..5 |-> [dist |-> profile[i], idx |-> RowOrder(t)[i]]]]] :
      profile \in DistanceProfiles }

\* an index without vectors
EmptyFaissIndex == [ntotal |-> 0, ranking |-> [t \in ProcessedQueries |-> <<>>]]

\* an index built from the first three products only
ShortFaissIndex ==
    [ntotal |-> 3,
     ranking |-> [t \in ProcessedQueries |->
                     LET rows == SelectSeq(RowOrder(t), LAMBDA row : row < 3)
                     IN  [i \in 1..3 |-> [dist |-> <<0, 3, 7>>[i], idx |-> rows[i]]]]]

\* an index of one vector
SingleFaissIndex ==
    [ntotal |-> 1,
     ranking |-> [t \in ProcessedQueries |-> <<[dist |-> 3, idx |-> 0]>>]]

\* a loaded index with its metadata list: five products, or none; lifespan
\* only warns when the two counts differ, so the index may be larger than the
\* metadata list, or smaller
IndexWorlds ==
    {[index |-> f, metadata |-> Products] : f \in FaissIndexes}
    \cup {[index |-> EmptyFaissIndex, metadata |-> <<>>]}
    \cup {[index |-> f, metadata |-> ListPrefix(Products, 3)] :
             f \in {g \in FaissIndexes : g.ranking[<<"t", "v">>][2].dist = 3}}
    \cup {[index |-> ShortFaissIndex, metadata |-> Products]}
    \cup {[index |-> SingleFaissIndex, metadata |-> ListPrefix(Products, 1)]}

(* ------------------------------------------------------------------ *)
(* State                                                                *)
(* ------------------------------------------------------------------ *)
VARIABLES
    all_subcategories,   \* HybridRetriever.all_subcategories
    retriever_index,     \* HybridRetriever.model and .index: query -> cosine similarities
    faiss_index,         \* the loaded FAISS index
    product_metadata,    \* the loaded metadata list, row i at position i + 1
    query_expansions,    \* SearchService.query_expansions
    gemini_api_key,      \* config.GEMINI_API_KEY is set
    embedding_model,     \* the embedding model: "none", "loaded", or "failing" (encode raises)
    hybrid_retriever,    \* the retriever object: "none" or "loaded"
    server_phase,        \* server.py lifespan: the step to run next, "serving" or "failed"
    req,                 \* the requests being served
    unit                 \* a direct call of one function and what it returned

vars == <<all_subcategories, retriever_index, faiss_index, product_metadata,
          query_expansions, gemini_api_key, embedding_model, hybrid_retriever,
          server_phase, req, unit>>

shared == <<all_subcategories, retriever_index, faiss_index, product_metadata,
            query_expansions, gemini_api_key, embedding_model, hybrid_retriever,
            server_phase>>

Requests == 1..NumRequests

MaxResultsValues == 1..MaxMaxResults

Impls == {"service", "server"}

IdleRequest ==
    [impl |-> "service", query |-> <<>>, max_results |-> 1,
     pc |-> "idle", cat |-> "none", vec |-> "none",
     retrieved |-> <<>>, selected |-> <<>>, selected_category |-> NoneVal,
     llm |-> "not_called", processed_query |-> <<>>, search_k |-> 0,
     neighbours |-> <<>>, vector_results |-> <<>>, fused |-> <<>>,
     status |-> 0, products |-> <<>>]

NewRequest(impl, query, max_results) ==
    [IdleRequest EXCEPT !.impl = impl, !.query = query,
                        !.max_results = max_results, !.pc = "accepted"]

NoCall == [op |-> "none"]

(* ------------------------------------------------------------------ *)
(* Scheduling: the event loop and the thread pool                       *)
(* ------------------------------------------------------------------ *)
\* the classifier called on the event loop, without asyncio.to_thread
RunsInThreadExceptClassifier(call) == call \in {"retrieving", "encoding", "searching"}

\* the blocking calls the coroutines hand to asyncio.to_thread
RunsInThread(call) == call \in {"retrieving", "classifying", "encoding", "searching"}

\* the blocking calls of request r that have started and not returned
InFlight(r) ==
    {req[r].cat, req[r].vec} \cap {"retrieving", "classifying", "encoding", "searching"}

\* a blocking call made on the event loop itself stops every other coroutine
LoopFreeFor(r, call) ==
    \A s \in Requests : \A c \in InFlight(s) :
        RunsInThread(c) \/ (s = r /\ c = call)

\* the blocking call of request r has been started and its coroutine can be
\* resumed with what the call returns
ThreadReturns(r, call) ==
    /\ req[r].pc \in {"gather", "failed"}
    /\ call \in {req[r].cat, req[r].vec}
    /\ LoopFreeFor(r, call)

\* asyncio.wait(..., return_when=FIRST_COMPLETED) in place of gather: a race
GatherFirstCompleted(r) == req[r].vec = "done"

\* asyncio.gather: the awaiting coroutine resumes with the results only when
\* every task has finished
GatherComplete(r) == req[r].cat = "done" /\ req[r].vec = "done"

\* without .copy() the item assignments reach the rows of the shared list
MetadataWrittenThrough(metadata, results) ==
    [i \in 1..Len(metadata) |->
        IF \E j \in 1..Len(results) : results[j].link = metadata[i].link
        THEN LET j == CHOOSE j \in 1..Len(results) : results[j].link = metadata[i].link
             IN  results[j]
        ELSE metadata[i]]

\* what the item assignments of the vector search leave in the shared list:
\* they go to the copy made by metadata[idx].copy(), not to the list
MetadataAfterSearch(metadata, results) == metadata

(* ------------------------------------------------------------------ *)
(* SearchService.search / server.py search_products                     *)
(* ------------------------------------------------------------------ *)
\* category_task = asyncio.create_task(...)
CreateCategoryTask(r) ==
    /\ req[r].pc = "accepted"
    /\ LoopFreeFor(r, "main")
    /\ req' = [req EXCEPT ![r].pc = "category_task_created", ![r].cat = "created"]
    /\ UNCHANGED <<shared, unit>>

\* search_task = asyncio.create_task(...)
CreateSearchTask(r) ==
    /\ req[r].pc = "category_task_created"
    /\ LoopFreeFor(r, "main")
    /\ req' = [req EXCEPT ![r].pc = "tasks_created", ![r].vec = "created"]
    /\ UNCHANGED <<shared, unit>>

\* await asyncio.gather(category_task, search_task): the coroutine yields and
\* both tasks run up to their first to_thread call
AwaitGather(r) ==
    /\ req[r].pc = "tasks_created"
    /\ LoopFreeFor(r, "main")
    /\ LET cat_fails == hybrid_retriever = "none"
           vec_fails == IF req[r].impl = "server"
                        THEN ServerComponentsMissing(embedding_model, faiss_index,
                                                     product_metadata)
                        ELSE ServiceModelMissing(embedding_model)
       IN  req' = [req EXCEPT ![r].pc = "gather",
                              ![r].cat = IF cat_fails THEN "failed" ELSE "retrieving",
                              ![r].processed_query =
                                  PreprocessQuery(IF req[r].impl = "service"
                                                  THEN query_expansions
                                                  ELSE ServerQueryExpansions, req[r].query),
                              ![r].vec = IF vec_fails THEN "failed" ELSE "encoding",
                              ![r].status =
                                  IF ~(cat_fails \/ vec_fails) THEN req[r].status
                                  ELSE IF req[r].impl = "server" THEN 503 ELSE 500]
    /\ UNCHANGED <<shared, unit>>

\* the answers the classifier's HTTP call can come to
ForeignCategory ==
    [category_name |-> <<"x">>, subcategory_name |-> <<"X", "x">>,
     subcategory_url |-> <<"/", "x">>]

HttpOutcomes(retrieved) ==
    {[kind |-> k, value |-> JsonNull] : k \in {"request_failed", "parse_failed", "uncaught"}}
    \cup {[kind |-> "json", value |-> v] :
            v \in {JsonDict(retrieved[i]) : i \in 1..Len(retrieved)}
                  \cup {ErrorDict, JsonList(retrieved), JsonList(<<>>), JsonNull,
                        JsonDict(ForeignCategory),
                        JsonDict([category_name |-> <<"e", "l">>])}}

\* hybrid_retriever.search returns in its thread and the coroutine goes on to
\* its next await (or to its end)
RetrieverDone(r) ==
    /\ ThreadReturns(r, "retrieving")
    /\ \E selected \in HybridSearch(all_subcategories, retriever_index,
                                    req[r].query, RETRIEVER_TOP_K) :
        LET retrieved == StripKeywords(all_subcategories, selected)
            seen == [req EXCEPT ![r].retrieved = retrieved, ![r].selected = selected]
        IN  req' =
              IF RetrieverSearchRaises(all_subcategories, req[r].query)
              THEN [req EXCEPT ![r].cat = "failed", ![r].status = 500]
              ELSE IF retrieved = <<>>
              THEN IF req[r].impl = "service"
                   THEN [seen EXCEPT ![r].cat = "done", ![r].selected_category = NoneVal]
                   ELSE [seen EXCEPT ![r].cat = "failed", ![r].status = 404]
              ELSE IF req[r].impl = "service" /\ ~gemini_api_key
                   THEN [seen EXCEPT ![r].cat = "done",
                                     ![r].selected_category = retrieved[1]]
                   ELSE [seen EXCEPT ![r].cat = "classifying"]
    /\ UNCHANGED <<shared, unit>>

\* find_category_with_gemini_rag returns in its thread
ClassifierDone(r) ==
    /\ ThreadReturns(r, "classifying")
    /\ \E http \in HttpOutcomes(req[r].retrieved) :
        LET answer == FindCategoryWithGeminiRag(gemini_api_key, req[r].retrieved, http)
            called == [req EXCEPT ![r].llm = http.kind]
            choice == ServerChoice(answer.value)
        IN  req' =
              IF answer.raised
              THEN [called EXCEPT ![r].cat = "failed", ![r].status = 500]
              ELSE IF req[r].impl = "service"
                   THEN [called EXCEPT ![r].cat = "done",
                                       ![r].selected_category =
                                           ServiceChoice(answer.value, req[r].retrieved)]
                   ELSE IF choice.status = 200
                        THEN [called EXCEPT ![r].cat = "done",
                                            ![r].selected_category = choice.value]
                        ELSE [called EXCEPT ![r].cat = "failed",
                                            ![r].status = choice.status]
    /\ UNCHANGED <<shared, unit>>

\* embedding_model.encode returns in its thread; the index search is handed
\* to a thread next
EncodeDone(r) ==
    /\ ThreadReturns(r, "encoding")
    /\ req' =
         IF EncodeRaises(embedding_model)
            \/ (req[r].impl = "service" /\ ServiceIndexMissing(faiss_index))
         THEN [req EXCEPT ![r].vec = "failed", ![r].status = 500]
         ELSE [req EXCEPT ![r].vec = "searching",
                          ![r].search_k =
                              IF req[r].impl = "service"
                              THEN ServiceSearchK(SEARCH_TOP_K, faiss_index.ntotal)
                              ELSE ServerSearchK(req[r].max_results, product_metadata)]
    /\ UNCHANGED <<shared, unit>>

\* faiss_index.search returns in its thread and the results are built
IndexSearchDone(r) ==
    /\ ThreadReturns(r, "searching")
    /\ \E outcome \in FaissSearchOutcomes(req[r].search_k) :
       \E neighbours \in {FaissIndexSearch(faiss_index, req[r].processed_query,
                                            req[r].search_k)} :
       \E service \in {ServiceVectorResults(product_metadata, neighbours)} :
       \E results \in {IF req[r].impl = "service" THEN service.value
                       ELSE ServerVectorResults(product_metadata, neighbours,
                                                req[r].max_results)} :
           /\ req' =
                IF outcome = "assertion"
                THEN [req EXCEPT ![r].vec = "failed", ![r].status = 500]
                ELSE IF req[r].impl = "service" /\ service.raised
                THEN [req EXCEPT ![r].neighbours = neighbours,
                                 ![r].vec = "failed", ![r].status = 500]
                ELSE [req EXCEPT ![r].neighbours = neighbours,
                                 ![r].vec = "done", ![r].vector_results = results]
           /\ product_metadata' =
                IF outcome = "assertion" THEN product_metadata
                ELSE MetadataAfterSearch(product_metadata, results)
    /\ UNCHANGED <<all_subcategories, retriever_index, faiss_index,
                   query_expansions, gemini_api_key, embedding_model,
                   hybrid_retriever, server_phase, unit>>

\* gather re-raises the first exception of a task in the awaiting coroutine;
\* the other task is left running
GatherRaises(r) ==
    /\ req[r].pc = "gather"
    /\ "failed" \in {req[r].cat, req[r].vec}
    /\ LoopFreeFor(r, "main")
    /\ req' = [req EXCEPT ![r].pc = "failed"]
    /\ UNCHANGED <<shared, unit>>

\* await asyncio.gather(...) returns both results to the awaiting coroutine
GatherReturns(r) ==
    /\ req[r].pc = "gather"
    /\ GatherComplete(r)
    /\ ~("failed" \in {req[r].cat, req[r].vec})
    /\ LoopFreeFor(r, "main")

\* both results are in: fusion, diversification, truncation, response
FuseAndRespond(r) ==
    /\ GatherReturns(r)
    /\ LET final_products ==
               IF req[r].impl = "service"
               THEN FuseAndRerankResults(req[r].vector_results,
                                         req[r].selected_category, req[r].query)
               ELSE ServerFusedRanked(req[r].vector_results, req[r].selected_category,
                                      req[r].query)
       IN  req' = [req EXCEPT ![r].pc = "responded",
                              ![r].status = 200,
                              ![r].fused = final_products,
                              ![r].products = Truncate(final_products,
                                                       req[r].max_results)]
    /\ UNCHANGED <<shared, unit>>

Next ==
    \E r \in Requests :
        \/ CreateCategoryTask(r)
        \/ CreateSearchTask(r)
        \/ AwaitGather(r)
        \/ RetrieverDone(r)
        \/ ClassifierDone(r)
        \/ EncodeDone(r)
        \/ IndexSearchDone(r)
        \/ GatherRaises(r)
        \/ FuseAndRespond(r)

\* startup: the components are loaded, the retriever built from one of catalogs
LoadedFrom(catalogs) ==
    /\ all_subcategories \in {BuildSubcategories(c) : c \in catalogs}
    /\ retriever_index \in TablesFor(Len(all_subcategories))
    /\ \E w \in IndexWorlds : faiss_index = w.index /\ product_metadata = w.metadata
    /\ query_expansions \in ExpansionFiles
    /\ gemini_api_key \in BOOLEAN
    /\ embedding_model = "loaded"
    /\ hybrid_retriever = "loaded"
    /\ server_phase = "serving"
    /\ unit = NoCall

Loaded == LoadedFrom(Catalogs)

\* the embedding model or the index is not there, or encode fails
Unavailable ==
    /\ all_subcategories = BuildSubcategories(Categories)
    /\ retriever_index \in {t \in SemanticTables : t[<<"t", "v">>] = <<2400, 1500, 300>>}
    /\ product_metadata = Products
    /\ query_expansions = <<>>
    /\ gemini_api_key = FALSE
    /\ hybrid_retriever = "loaded"
    /\ server_phase = "serving"
    /\ unit = NoCall
    /\ \E f \in {f \in FaissIndexes : f.ranking[<<"t", "v">>][2].dist = 1} :
          \/ embedding_model \in {"none", "failing"} /\ faiss_index = f
          \/ embedding_model = "loaded" /\ faiss_index = NoneVal

\* one request, any input
Init ==
    /\ Loaded \/ Unavailable
    /\ \E impl \in Impls, query \in Queries, max_results \in MaxResultsValues :
          req = [r \in Requests |-> IF r = 1 THEN NewRequest(impl, query, max_results)
                                    ELSE IdleRequest]

Spec == Init /\ [][Next]_vars

\* several requests served at once on one loaded snapshot, the SearchService
\* pipeline and the server.py endpoint in turn
ConcurrentQuery == <<"t", "v">>

InitConc ==
    /\ all_subcategories = BuildSubcategories(Categories)
    /\ retriever_index \in {t \in SemanticTables : t[ConcurrentQuery] = <<2400, 1500, 300>>}
    /\ faiss_index \in {f \in FaissIndexes : f.ranking[ConcurrentQuery][2].dist = 1}
    /\ product_metadata = Products
    /\ query_expansions = <<>>
    /\ gemini_api_key = TRUE
    /\ embedding_model = "loaded"
    /\ hybrid_retriever = "loaded"
    /\ server_phase = "serving"
    /\ unit = NoCall
    /\ req = [r \in Requests |->
                NewRequest(IF r % 2 = 1 THEN "service" ELSE "server", ConcurrentQuery, 2)]

SpecConc == InitConc /\ [][Next]_vars

(* ------------------------------------------------------------------ *)
(* Direct calls of the public functions                                 *)
(* ------------------------------------------------------------------ *)
\* ranked candidates a caller can pass to the diversification
RankedCandidates ==
    { [title |-> <<"t", "v", " ", "a">>, category |-> <<"T", "V">>, link |-> 1,
       similarity_score |-> 900000, search_rank |-> 1, final_score |-> 900000],
      [title |-> <<"t", "v", " ", "b">>, category |-> <<"T", "V">>, link |-> 2,
       similarity_score |-> 800000, search_rank |-> 2, final_score |-> 800000],
      [title |-> <<"p", "h", " ", "a">>, category |-> <<"P", "h">>, link |-> 3,
       similarity_score |-> 700000, search_rank |-> 3, final_score |-> 700000] }

\* lists sorted by final_score, as the sort before the diversification leaves them
RankedLists ==
    UNION { {l \in [1..n -> RankedCandidates] :
                \A i \in 1..n : i < n => l[i].final_score >= l[i + 1].final_score} :
            n \in 0..MaxDivLen }

\* five different candidates in score order, of three categories, and four
\* different candidates of one category
RankedFive ==
    [i \in 1..5 |->
        [title |-> <<<<"t", "v", " ", "a">>, <<"t", "v", " ", "b">>, <<"p", "h", " ", "a">>,
                     <<"t", "v", " ", "s">>, <<"p", "h", " ", "b">>>>[i],
         category |-> <<<<"T", "V">>, <<"T", "V">>, <<"P", "h">>,
                        <<"T", "V", " ", "s">>, <<"P", "h">>>>[i],
         link |-> i, similarity_score |-> Scale - i * 100000, search_rank |-> i,
         final_score |-> Scale - i * 100000]]

RankedOneCategory ==
    [i \in 1..4 |-> [RankedFive[i] EXCEPT !.category = <<"P", "h">>]]

\* the order-preserving sublists of a list
Sublists(list) ==
    {SelectSeq([i \in 1..Len(list) |-> IF i \in keep THEN <<list[i]>> ELSE <<>>],
               LAMBDA x : x # <<>>) : keep \in SUBSET (1..Len(list))}

\* sorted lists of pairwise different candidates
DistinctRankedLists ==
    {[i \in 1..Len(l) |-> l[i][1]] : l \in Sublists(RankedFive)}
    \cup {RankedOneCategory}

\* HybridRetriever.search(user_query, top_k)
CallRetrieverSearch ==
    /\ unit = NoCall
    /\ \E user_query \in UnitQueries \cup {<<>>}, top_k \in 0..MaxTopK :
         \E selected \in HybridSearch(all_subcategories, retriever_index, user_query, top_k) :
            unit' = [op |-> "retriever_search", query |-> user_query, top_k |-> top_k,
                     raised |-> RetrieverSearchRaises(all_subcategories, user_query),
                     keyword_scores |->
                         KeywordScores(all_subcategories, StrLower(user_query)),
                     hybrid_scores |->
                         IF user_query = <<>> THEN <<>>
                         ELSE HybridScores(all_subcategories,
                                           retriever_index[StrLower(user_query)],
                                           StrLower(user_query)),
                     selected |-> selected,
                     result |-> StripKeywords(all_subcategories, selected)]
    /\ UNCHANGED <<shared, req>>

\* SearchService._diversify_results(results)
CallDiversify ==
    /\ unit = NoCall
    /\ \E results \in RankedLists \cup DistinctRankedLists :
            unit' = [op |-> "diversify", arg |-> results,
                     result |-> DiversifyResults(results)]
    /\ UNCHANGED <<shared, req>>

\* server.py diversify_results(results, query)
CallServerDiversify ==
    /\ unit = NoCall
    /\ \E results \in RankedLists \cup DistinctRankedLists :
            unit' = [op |-> "server_diversify", arg |-> results,
                     result |-> ServerDiversifyResults(results)]
    /\ UNCHANGED <<shared, req>>

\* embedding.py SearchService(...).search(query_text, top_k); __init__ leaves
\* index and metadata None when the index files are not found
CallEmbeddingSearch ==
    /\ unit = NoCall
    /\ \E query_text \in ProcessedQueries, top_k \in 1..MaxTopK, found \in BOOLEAN :
         LET index == IF found THEN faiss_index ELSE NoneVal
             metadata == IF found THEN product_metadata ELSE NoneVal
             out == EmbeddingSearch(index, metadata, query_text, top_k)
         IN  unit' = [op |-> "embedding_search", query |-> query_text, top_k |-> top_k,
                      index |-> index, raised |-> out.raised, result |-> out.value]
    /\ UNCHANGED <<shared, req>>

\* the maps _preprocess_query is called with: the expansion file absent, one
\* entry, or two entries of which a query may hold both
UnitExpansionMaps ==
    ExpansionFiles \cup
    { << [term |-> <<"t", "v">>, expansion |-> <<"t", "v", " ", "x">>],
         [term |-> <<"p", "h">>, expansion |-> <<"p", "h", " ", "m", "o", "b">>] >> }

\* raw queries with blanks around them, capitals, and one or two terms
PreprocessInputs ==
    Queries \cup
    { <<" ", "P", "h", " ", "T", "V", " ">>,
      <<"A", "u", "d", "i", "o", " ", "S", "m", "a", "r", "t", " ">>,
      <<" ", "a", "u", "d", "i", "o">>,
      <<" ", "Z", " ">> }

\* SearchService._preprocess_query(query) and server.py preprocess_query(query)
CallPreprocessQuery ==
    /\ unit = NoCall
    /\ \E impl \in Impls, query \in PreprocessInputs :
         \E expansions \in (IF impl = "service" THEN UnitExpansionMaps
                             ELSE {ServerQueryExpansions}) :
            unit' = [op |-> "preprocess_query", impl |-> impl, arg |-> query,
                     expansions |-> expansions,
                     result |-> PreprocessQuery(expansions, query)]
    /\ UNCHANGED <<shared, req>>

\* the lines of _find_best_category (106-113) and find_best_category (444-460)
\* that follow the classifier call, applied to what the classifier returned
CallCategoryChoice ==
    /\ unit = NoCall
    /\ all_subcategories # <<>>
    /\ \E impl \in Impls :
         LET retrieved == StripKeywords(all_subcategories,
                                        [i \in 1..Len(all_subcategories) |-> i])
         IN  \E http \in HttpOutcomes(retrieved) :
               LET answer == FindCategoryWithGeminiRag(TRUE, retrieved, http)
                   choice == IF impl = "service"
                             THEN [status |-> 200,
                                   value |-> ServiceChoice(answer.value, retrieved)]
                             ELSE ServerChoice(answer.value)
               IN  /\ ~answer.raised
                   /\ unit' = [op |-> "category_choice", impl |-> impl,
                               retrieved |-> retrieved, answer |-> answer.value,
                               status |-> choice.status, result |-> choice.value]
    /\ UNCHANGED <<shared, req>>

(* ------------------------------------------------------------------ *)
(* Offline index build: generate_embeddings_batch                       *)
(* ------------------------------------------------------------------ *)
\* build_index_test.py line 223: batch_size = 32
TEST_BATCH_SIZE == 32

\* config.EMBEDDER_PASSAGE_PREFIX = "passage: "
EMBEDDER_PASSAGE_PREFIX == <<"p", "a", "s", "s", "a", "g", "e", ":", " ">>

\* a null where a string is expected; no string, strings being sequences of
\* one-character strings
NullText == <<"None">>

\* build_embedding_text: product.get('title', '').strip() and
\* product.get('category', '').strip() raise AttributeError on a null value
BuildEmbeddingTextRaises(product) ==
    DictGet(product, "title", <<>>) = NullText \/ DictGet(product, "category", <<>>) = NullText

\* build_embedding_text: the title part and the category part (their labels
\* left out) joined by ". "; a product without specs and description has no
\* further part
BuildEmbeddingText(product) ==
    DictGet(product, "title", <<>>) \o <<".", " ">> \o DictGet(product, "category", <<>>)

\* embedding_model.encode(texts): one row per text, in the order of the texts
Encode(texts) == [i \in 1..Len(texts) |-> [vector_of |-> texts[i]]]

\* the scraped products: n records, those at the positions in bad with a null title
ScrapedProducts(n, bad) ==
    LET digits == <<"0", "1", "2", "3", "4", "5", "6", "7", "8", "9">>
    IN  [i \in 1..n |->
            [title |-> IF i \in bad THEN NullText
                       ELSE <<digits[(i \div 10) + 1], digits[(i % 10) + 1]>>,
             category |-> <<"P", "h">>, link |-> i]]

\* lists shorter and longer than one batch, with and without null titles
ScrapedLists ==
    {ScrapedProducts(n, bad) :
        n \in {0, 2, 3, TEST_BATCH_SIZE + 2},
        bad \in {{}, {1}, {2}, {1, 2}, {2, TEST_BATCH_SIZE + 1}}}

\* build_index.py generate_embeddings_batch (111-129): the texts of all products
\* are built in one list comprehension, which raises when one product fails;
\* the metadata is the product list itself
GenerateEmbeddingsBatch(products) ==
    IF products = <<>> THEN [raised |-> FALSE, embeddings |-> <<>>, metadata |-> <<>>]
    ELSE IF \E i \in 1..Len(products) : BuildEmbeddingTextRaises(products[i])
    THEN [raised |-> TRUE, embeddings |-> <<>>, metadata |-> <<>>]
    ELSE [raised |-> FALSE,
          embeddings |-> Encode([i \in 1..Len(products) |->
                                    EMBEDDER_PASSAGE_PREFIX \o BuildEmbeddingText(products[i])]),
          metadata |-> products]

\* build_index_test.py generate_embeddings_batch (225-251): batch by batch, a
\* product whose text fails is skipped, its text and its record together
RECURSIVE TestBatches(_)
TestBatches(products) ==
    IF products = <<>> THEN [vectors |-> <<>>, metadata |-> <<>>]
    ELSE LET batch == ListPrefix(products, TEST_BATCH_SIZE)
             rest == SubSeq(products, Len(batch) + 1, Len(products))
             batch_metadata == SelectSeq(batch, LAMBDA p : ~BuildEmbeddingTextRaises(p))
             batch_texts == [i \in 1..Len(batch_metadata) |->
                                EMBEDDER_PASSAGE_PREFIX \o BuildEmbeddingText(batch_metadata[i])]
             later == TestBatches(rest)
         IN  [vectors |-> Encode(batch_texts) \o later.vectors,
              metadata |-> batch_metadata \o later.metadata]

\* build_index_test.py generate_embeddings_batch (205-262)
TestGenerateEmbeddingsBatch(products) ==
    LET built == TestBatches(products)
    IN  IF products = <<>> \/ built.vectors = <<>>
        THEN [raised |-> FALSE, embeddings |-> <<>>, metadata |-> <<>>]
        ELSE [raised |-> FALSE, embeddings |-> built.vectors, metadata |-> built.metadata]

Builders == {"build_index", "build_index_test"}

\* OfflineIndexBuilder.generate_embeddings_batch(products)
CallGenerateEmbeddingsBatch ==
    /\ unit = NoCall
    /\ \E builder \in Builders, products \in ScrapedLists :
          LET built == IF builder = "build_index" THEN GenerateEmbeddingsBatch(products)
                       ELSE TestGenerateEmbeddingsBatch(products)
          IN  unit' = [op |-> "generate_embeddings_batch", builder |-> builder,
                       products |-> products, raised |-> built.raised,
                       embeddings |-> built.embeddings, metadata |-> built.metadata]
    /\ UNCHANGED <<shared, req>>

NextUnit ==
    \/ CallGenerateEmbeddingsBatch
    \/ CallCategoryChoice
    \/ CallRetrieverSearch
    \/ CallDiversify
    \/ CallServerDiversify
    \/ CallEmbeddingSearch
    \/ CallPreprocessQuery

InitUnit ==
    /\ LoadedFrom(Catalogs \cup {ScenarioCatalog})
    /\ req = [r \in Requests |-> IdleRequest]

SpecUnit == InitUnit /\ [][NextUnit]_vars

(* ------------------------------------------------------------------ *)
(* server.py lifespan: startup, then serving                            *)
(* ------------------------------------------------------------------ *)
StartupSteps == <<"load_model", "load_retriever", "load_index", "load_metadata">>

StepNumber(phase) == CHOOSE i \in 1..Len(StartupSteps) : StartupSteps[i] = phase

\* the failure of a step logged and startup carried on
AfterStepIgnoringFailure(phase, ok) ==
    IF StepNumber(phase) < Len(StartupSteps)
    THEN StartupSteps[StepNumber(phase) + 1]
    ELSE "serving"

\* a step that raises leaves the try block: "except Exception" raises
\* RuntimeError and the application never starts; after the last step the
\* lifespan yields and the application runs
AfterStep(phase, ok) ==
    IF ~ok THEN "failed"
    ELSE IF StepNumber(phase) < Len(StartupSteps)
    THEN StartupSteps[StepNumber(phase) + 1]
    ELSE "serving"

\* step 1: embedding_model = SentenceTransformer(config.EMBEDDER_MODEL)
LoadEmbeddingModel ==
    /\ server_phase = "load_model"
    /\ \E ok \in BOOLEAN :
          /\ embedding_model' = IF ok THEN "loaded" ELSE embedding_model
          /\ server_phase' = AfterStep(server_phase, ok)
    /\ UNCHANGED <<all_subcategories, retriever_index, faiss_index, product_metadata,
                   query_expansions, gemini_api_key, hybrid_retriever, req, unit>>

\* step 2: load_categories_from_file, "if not categories: raise ValueError",
\* hybrid_retriever = HybridRetriever(categories)
LoadRetriever ==
    /\ server_phase = "load_retriever"
    /\ \E categories \in Catalogs \cup {<<>>} :
          LET ok == categories # <<>>
              subcats == BuildSubcategories(categories)
          IN  /\ hybrid_retriever' = IF ok THEN "loaded" ELSE hybrid_retriever
              /\ all_subcategories' = IF ok THEN subcats ELSE all_subcategories
              /\ retriever_index' \in
                    IF ~ok THEN {retriever_index}
                    ELSE IF subcats = <<>> THEN {EmptySemanticTable}
                    ELSE {t \in SemanticTables :
                             t[ConcurrentQuery] = <<2400, 1500, 300>>}
              /\ server_phase' = AfterStep(server_phase, ok)
    /\ UNCHANGED <<faiss_index, product_metadata, query_expansions, gemini_api_key,
                   embedding_model, req, unit>>

\* step 3: the index file must exist; faiss_index = faiss.read_index(...)
LoadIndex ==
    /\ server_phase = "load_index"
    /\ \E ok \in BOOLEAN :
          /\ faiss_index' \in
                IF ok THEN {f \in FaissIndexes : f.ranking[ConcurrentQuery][2].dist = 1}
                ELSE {faiss_index}
          /\ server_phase' = AfterStep(server_phase, ok)
    /\ UNCHANGED <<all_subcategories, retriever_index, product_metadata,
                   query_expansions, gemini_api_key, embedding_model, hybrid_retriever,
                   req, unit>>

\* step 4: the metadata file must exist; product_metadata = read_json_async(...);
\* then the lifespan yields
LoadMetadata ==
    /\ server_phase = "load_metadata"
    /\ \E ok \in BOOLEAN :
          /\ product_metadata' \in IF ok THEN {Products, <<>>} ELSE {product_metadata}
          /\ server_phase' = AfterStep(server_phase, ok)
    /\ UNCHANGED <<all_subcategories, retriever_index, faiss_index, query_expansions,
                   gemini_api_key, embedding_model, hybrid_retriever, req, unit>>

\* POST /search reaches search_products: the application handles requests
\* only while the lifespan is suspended at its yield
AcceptRequest(r) ==
    /\ server_phase = "serving"
    /\ req[r].pc = "idle"
    /\ \A earlier \in 1..(r - 1) : req[earlier].pc # "idle"
    /\ req' = [req EXCEPT ![r] = NewRequest("server", ConcurrentQuery, 2)]
    /\ UNCHANGED <<shared, unit>>

NextLifespan ==
    \/ LoadEmbeddingModel
    \/ LoadRetriever
    \/ LoadIndex
    \/ LoadMetadata
    \/ \E r \in Requests : AcceptRequest(r)
    \/ Next

\* the module-level globals before the lifespan has run
InitLifespan ==
    /\ all_subcategories = <<>>
    /\ retriever_index = EmptySemanticTable
    /\ faiss_index = NoneVal
    /\ product_metadata = <<>>
    /\ query_expansions = <<>>
    /\ gemini_api_key = TRUE
    /\ embedding_model = "none"
    /\ hybrid_retriever = "none"
    /\ server_phase = "load_model"
    /\ unit = NoCall
    /\ req = [r \in Requests |-> IdleRequest]

SpecLifespan == InitLifespan /\ [][NextLifespan]_vars

(* ------------------------------------------------------------------ *)
(* Properties                                                           *)
(* ------------------------------------------------------------------ *)
Responded(r) == req[r].pc = "responded"

\* the fused-then-diversified list of request r, recomputed from its inputs
FusedList(r) ==
    IF req[r].impl = "service"
    THEN FuseAndRerankResults(req[r].vector_results, req[r].selected_category, req[r].query)
    ELSE ServerFusedRanked(req[r].vector_results, req[r].selected_category, req[r].query)

\* C1: the products of a response are exactly the first min(max_results, n)
\* elements of the fused-then-diversified list of n candidates, in that order,
\* so never more than max_results.
C1_ProductsAreTruncatedPrefix ==
    \A r \in Requests :
        Responded(r) =>
            /\ req[r].fused = FusedList(r)
            /\ Len(req[r].products) = Min2(req[r].max_results, Len(FusedList(r)))
            /\ Len(req[r].products) <= req[r].max_results
            /\ \A i \in 1..Len(req[r].products) : req[r].products[i] = FusedList(r)[i]

\* five fused candidates and max_results = 2 give two products
C1_Witness ==
    \E r \in Requests :
        /\ Responded(r) /\ req[r].impl = "service"
        /\ req[r].max_results = 2
        /\ Len(req[r].fused) = 5
        /\ Len(req[r].products) = 2

\* the classifier call ended in an error the adapter reports as an error object
ClassifierErrored(r) == req[r].llm \in {"request_failed", "parse_failed"}

\* C2: when the classifier call errors, the retriever having returned a
\* candidate and the vector search a product, the search ends without error,
\* selected_category is null and the products are not empty.
C2_ClassifierErrorGivesNullCategory ==
    \A r \in Requests :
        ClassifierErrored(r) =>
            /\ req[r].cat # "failed"
            /\ Responded(r) =>
                  /\ IsNone(req[r].selected_category)
                  /\ req[r].vector_results # <<>> => req[r].products # <<>>

\* the retriever has answered request r
Retrieved(r) == req[r].cat \in {"classifying", "done", "failed"}

\* C3: when the retriever returns no candidate the search is not aborted:
\* selected_category is null, the classifier is not called, no product gets
\* category_match = true, and the vector-search products are fused, diversified
\* and returned.
C3_EmptyRetrievalDoesNotAbort ==
    \A r \in Requests :
        (Retrieved(r) /\ req[r].retrieved = <<>>
            /\ ~RetrieverSearchRaises(all_subcategories, req[r].query)) =>
            /\ req[r].cat = "done"
            /\ IsNone(req[r].selected_category)
            /\ req[r].llm = "not_called"
            /\ req[r].vec = "done" => req[r].pc \in {"gather", "responded"}
            /\ Responded(r) =>
                  /\ req[r].products = ListPrefix(FusedList(r), req[r].max_results)
                  /\ \A i \in 1..Len(req[r].fused) :
                        DictGet(req[r].fused[i], "category_match", FALSE) = FALSE

\* the tasks of request r that have been started
Started(state) == state \notin {"none", "created"}

\* C4: both branches are created before either is awaited, and fusion starts
\* only after both have completed: a response exists only with both branches
\* done, and no branch is abandoned for the other.
C4_JoinNotRace ==
    \A r \in Requests :
        /\ Responded(r) => (req[r].cat = "done" /\ req[r].vec = "done")
        /\ req[r].pc = "gather" => (req[r].cat # "none" /\ req[r].vec # "none")
        /\ (Started(req[r].cat) \/ Started(req[r].vec)) =>
              /\ req[r].pc \in {"gather", "failed", "responded"}
              /\ Started(req[r].cat) /\ Started(req[r].vec)

\* the vector branch has finished, the category branch is still with the
\* classifier, and the request is still waiting at the join
C4_Witness ==
    \E r \in Requests :
        req[r].pc = "gather" /\ req[r].vec = "done" /\ req[r].cat = "classifying"

\* a step of the coroutines of request r on the event loop, short of the join
LoopStep(r) ==
    \/ CreateCategoryTask(r) \/ CreateSearchTask(r) \/ AwaitGather(r)
    \/ GatherRaises(r)

\* request r still has work to do
Unfinished(r) ==
    /\ req[r].pc \notin {"idle", "responded"}
    /\ ~(req[r].pc = "failed" /\ InFlight(r) = {})

\* C5: while the classifier call of one request is pending, the vector branch
\* of that request can still take its steps and every other unfinished request
\* can take a step; only the join of the request itself has to wait.
C5_PendingClassifierBlocksOnlyOwnJoin ==
    \A r \in Requests :
        req[r].cat = "classifying" =>
            /\ \A call \in InFlight(r) : ThreadReturns(r, call)
            /\ ~GatherReturns(r)
            /\ \A s \in Requests \ {r} :
                  Unfinished(s) =>
                      \/ \E call \in InFlight(s) : ThreadReturns(s, call)
                      \/ GatherReturns(s)
                      \/ ENABLED LoopStep(s)

\* one classifier call still pending, the vector branch of that request done,
\* and another request already answered
C5_Witness ==
    \E r, s \in Requests :
        /\ r # s
        /\ req[r].cat = "classifying" /\ req[r].vec = "done"
        /\ Responded(s) /\ req[s].products # <<>>

PerRequestFields == {"similarity_score", "search_rank", "final_score", "category_match"}

\* C6: no step of any request changes the structures loaded at startup, and
\* the shared metadata rows never carry a per-request field.
C6_SharedStructuresUnchanged ==
    [][ /\ shared' = shared
        /\ \A i \in 1..Len(product_metadata') :
              (DOMAIN product_metadata'[i]) \cap PerRequestFields = {} ]_vars

\* two requests answered from the same snapshot with different per-request values
C6_Witness ==
    \E r, s \in Requests :
        /\ r # s /\ Responded(r) /\ Responded(s)
        /\ req[r].products # <<>> /\ req[s].products # <<>>
        /\ req[r].products # req[s].products
        /\ product_metadata = Products

\* the number of positions of a list that hold x
Occurrences(l, x) == Cardinality({i \in 1..Len(l) : l[i] = x})

\* C7: diversify returns a list of the same length that holds every element of
\* its input exactly as often as the input does, equal elements included.
C7_DiversifyKeepsEveryElement ==
    unit.op = "diversify" =>
        /\ Len(unit.result) = Len(unit.arg)
        /\ \A c \in RankedCandidates :
              Occurrences(unit.result, c) = Occurrences(unit.arg, c)

InUnitInterval(x) == 0 <= x /\ x <= Scale

\* C8: every candidate of the vector search and of the response has
\* 0 <= similarity_score <= 1, and every candidate SearchService returns has
\* 0 <= final_score <= 1.
C8_ScoresInUnitInterval ==
    \A r \in Requests :
        /\ \A i \in 1..Len(req[r].vector_results) :
              InUnitInterval(req[r].vector_results[i]["similarity_score"])
        /\ \A i \in 1..Len(req[r].products) :
              /\ InUnitInterval(req[r].products[i]["similarity_score"])
              /\ req[r].impl = "service" =>
                    /\ "final_score" \in DOMAIN req[r].products[i]
                    /\ InUnitInterval(req[r].products[i]["final_score"])

\* a returned candidate whose boosts would have exceeded 1 and was clamped
C8_Witness ==
    \E r \in Requests :
        /\ Responded(r) /\ req[r].impl = "service"
        /\ \E i \in 1..Len(req[r].products) :
              /\ req[r].products[i]["similarity_score"] = Scale
              /\ DictGet(req[r].products[i], "category_match", FALSE)
              /\ req[r].products[i]["final_score"] = Scale

\* the hybrid scores of the index entries for the query of request r
HybridScoresOf(r) ==
    HybridScores(all_subcategories, retriever_index[StrLower(req[r].query)],
                 StrLower(req[r].query))

\* C9: the retriever returns no candidate with hybrid_score <= 0.2 and the
\* vector search returns no candidate with similarity_score < 0.3.
C9_ThresholdExclusion ==
    \A r \in Requests :
        /\ \A i \in 1..Len(req[r].selected) :
              HybridScoresOf(r)[req[r].selected[i]] > HYBRID_SCORE_THRESHOLD
        /\ \A i \in 1..Len(req[r].vector_results) :
              req[r].vector_results[i]["similarity_score"] >= SIMILARITY_THRESHOLD

\* C10: for a non-empty query and any top_k >= 0 the retriever returns at most
\* top_k candidates.
C10_AtMostTopK ==
    (unit.op = "retriever_search" /\ unit.query # <<>>) =>
        Len(unit.result) <= unit.top_k

\* the hybrid scores of the index entries for the query of the direct call
UnitHybridScores ==
    HybridScores(all_subcategories, retriever_index[StrLower(unit.query)],
                 StrLower(unit.query))

\* entry i comes before entry j: a higher score, or the same score and an
\* earlier place in the catalog
RanksBefore(h, i, j) == h[i] > h[j] \/ (h[i] = h[j] /\ i < j)

\* C11: the retriever returns the top_k entries of highest hybrid_score (those
\* above the threshold), in descending order of score, an entry earlier in the
\* catalog coming first among entries of equal score, at the cut-off as well.
C11_TiesInCatalogOrder ==
    (unit.op = "retriever_search" /\ unit.query # <<>> /\ unit.top_k >= 1) =>
        LET h == UnitHybridScores
            n == Len(all_subcategories)
            sel == unit.selected
            top == {i \in 1..n :
                       /\ Cardinality({j \in 1..n : RanksBefore(h, j, i)}) < unit.top_k
                       /\ h[i] > HYBRID_SCORE_THRESHOLD}
        IN  /\ {sel[a] : a \in 1..Len(sel)} = top
            /\ \A a, b \in 1..Len(sel) : a < b => RanksBefore(h, sel[a], sel[b])

\* C12: the retriever returns the empty sequence, without raising, for the
\* empty query and, whatever the query and top_k, when its catalog has no
\* subcategory.
C12_EmptyQueryOrCatalogGivesEmpty ==
    (unit.op = "retriever_search" /\ (unit.query = <<>> \/ all_subcategories = <<>>)) =>
        (~unit.raised /\ unit.result = <<>>)

\* the components are loaded and nothing can match the query of request r:
\* no product is indexed, the catalog has no subcategory, or the retriever
\* has returned no candidate
NothingMatches(r) ==
    \/ product_metadata = <<>>
    \/ all_subcategories = <<>>
    \/ (Retrieved(r) /\ req[r].retrieved = <<>>)

\* C13: with the components loaded and nothing to match, the search does not
\* fail: it ends with a null selected_category when no category matches and
\* with an empty products sequence when no product is indexed.
C13_NoMatchIsNotAFailure ==
    \A r \in Requests :
        NothingMatches(r) =>
            /\ req[r].cat # "failed" /\ req[r].vec # "failed" /\ req[r].pc # "failed"
            /\ Responded(r) =>
                  /\ (all_subcategories = <<>> \/ req[r].retrieved = <<>>) =>
                        IsNone(req[r].selected_category)
                  /\ product_metadata = <<>> => req[r].products = <<>>

\* the embedding model or the vector index is not loaded, or encode raises
ComponentUnavailable == embedding_model # "loaded" \/ ~Truthy(faiss_index)

\* C14: when the vector index or the embedding model is unavailable at the time
\* of the vector search, the search fails: the request is never answered and no
\* list, empty or partial, comes back as if the search had succeeded
C14_UnavailableComponentFails ==
    /\ \A r \in Requests :
          ComponentUnavailable => ~Responded(r) /\ req[r].vec # "done"
    /\ (unit.op = "embedding_search" /\ ~Truthy(unit.index)) => unit.raised

\* a neighbour of request r whose row id is outside [0, len(metadata))
OutOfRange(r, i) ==
    req[r].neighbours[i].idx < 0 \/ req[r].neighbours[i].idx >= Len(product_metadata)

\* C15: a neighbour whose row id is negative, or not below the length of the
\* metadata list, is skipped: the vector search raises nothing and returns
\* products of the in-range neighbours only
C15_OutOfRangeNeighbourSkipped ==
    \A r \in Requests :
        (\E i \in 1..Len(req[r].neighbours) : OutOfRange(r, i)) =>
            /\ req[r].vec = "done"
            /\ \A k \in 1..Len(req[r].vector_results) :
                  \E i \in 1..Len(req[r].neighbours) :
                      /\ ~OutOfRange(r, i)
                      /\ req[r].vector_results[k].link
                            = product_metadata[req[r].neighbours[i].idx + 1].link

\* every component the lifespan loads is there
ComponentsLoaded ==
    /\ embedding_model = "loaded"
    /\ hybrid_retriever = "loaded"
    /\ ~IsNone(faiss_index)

\* C16: startup completes before any request is processed, no request is
\* answered successfully with a component not loaded, and a startup in which a
\* step failed never reaches the serving state
C16_StartupBeforeServing ==
    /\ [](server_phase = "serving" => ComponentsLoaded)
    /\ [](\A r \in Requests : req[r].pc # "idle" => server_phase = "serving")
    /\ [](\A r \in Requests : Responded(r) => ComponentsLoaded /\ product_metadata # <<>>)
    /\ [][server_phase = "failed" => server_phase' = "failed"]_vars

\* a request answered 200 by a server whose startup completed
C16_Witness ==
    \E r \in Requests :
        Responded(r) /\ req[r].status = 200 /\ server_phase = "serving" /\ ComponentsLoaded

\* the retriever was built from the one-subcategory catalog
ScenarioLoaded == all_subcategories = BuildSubcategories(ScenarioCatalog)

\* C17: the keyword score of an entry is 1 when at least one keyword of its
\* lowercased keyword set is a substring of the lowercased query and 0
\* otherwise, never more; the hybrid score is semantic * 0.6 + keyword * 0.4;
\* in the one-subcategory catalog the query holding both keywords scores 1 and
\* that entry is the only candidate returned
C17_BinaryKeywordScore ==
    (unit.op = "retriever_search" /\ unit.query # <<>>) =>
        LET q == StrLower(unit.query)
            n == Len(all_subcategories)
            any(i) == \E kw \in all_subcategories[i].keywords : StrContains(kw, q)
        IN  /\ Len(unit.keyword_scores) = n /\ Len(unit.hybrid_scores) = n
            /\ \A i \in 1..n :
                  /\ unit.keyword_scores[i] = (IF any(i) THEN 1 ELSE 0)
                  /\ unit.hybrid_scores[i] * (SemanticDen \div 1000)
                        = retriever_index[q][i] * HYBRID_SEMANTIC_WEIGHT * (Scale \div 10000)
                          + unit.keyword_scores[i] * HYBRID_KEYWORD_WEIGHT
                              * (Scale \div 10000) * SemanticDen
            /\ (ScenarioLoaded /\ unit.query = ScenarioQuery) =>
                  /\ unit.keyword_scores = <<1>>
                  /\ Len(unit.result) = 1
                  /\ unit.result[1].subcategory_name
                        = ScenarioCatalog[1].subcategories[1].subcategory_name

\* the scenario query asked of the one-subcategory catalog, its entry returned
C17_Witness ==
    /\ unit.op = "retriever_search"
    /\ ScenarioLoaded
    /\ unit.query = ScenarioQuery
    /\ unit.keyword_scores = <<1>>
    /\ Len(unit.result) = 1

\* the places of the map entries whose term is a substring of text
MatchingTerms(expansions, text) ==
    {i \in 1..Len(expansions) : StrContains(expansions[i].term, text)}

\* C18: preprocessing returns the trimmed, lowercased query when no term of the
\* expansion map is a substring of it, and otherwise exactly the expansion of
\* the first matching term in map order, in place of the whole query; the
\* expansions of several matching terms are never joined
C18_FirstExpansionReplacesQuery ==
    unit.op = "preprocess_query" =>
        LET cleaned == StrLower(StrStrip(unit.arg))
            matching == MatchingTerms(unit.expansions, cleaned)
            first == CHOOSE i \in matching : \A j \in matching : i <= j
            lead == Len(unit.arg) - Len(StripLeft(unit.arg))
        IN  /\ cleaned = <<>> \/ (cleaned[1] # " " /\ cleaned[Len(cleaned)] # " ")
            /\ \A i \in 1..Len(cleaned) : cleaned[i] = LowerChar(unit.arg[lead + i])
            /\ unit.result = (IF matching = {} THEN cleaned
                              ELSE unit.expansions[first].expansion)

\* a query that holds two terms of the map, answered by the first expansion
C18_Witness ==
    /\ unit.op = "preprocess_query"
    /\ Cardinality(MatchingTerms(unit.expansions, StrLower(StrStrip(unit.arg)))) = 2
    /\ unit.result = unit.expansions[1].expansion
    /\ unit.arg # StrLower(StrStrip(unit.arg))

\* the top_k the vector search of request r is called with
VectorTopK(r) == IF req[r].impl = "service" THEN SEARCH_TOP_K ELSE req[r].max_results

\* C19: for top_k >= 1 the vector search asks the index for exactly
\* min(top_k * 3, total_indexed) neighbours, total_indexed being the number of
\* vectors in the index; it never asks for more than are indexed and never
\* returns more than search_k candidates
C19_SearchKBounded ==
    \A r \in Requests :
        (req[r].vec \in {"searching", "done"} /\ VectorTopK(r) >= 1) =>
            /\ req[r].search_k = Min2(VectorTopK(r) * 3, faiss_index.ntotal)
            /\ req[r].search_k <= faiss_index.ntotal
            /\ Len(req[r].vector_results) <= req[r].search_k

\* the index answered request r with a batch in which all distances are equal
EqualDistances(r) ==
    /\ req[r].neighbours # <<>>
    /\ \A i, j \in 1..Len(req[r].neighbours) :
          req[r].neighbours[i].dist = req[r].neighbours[j].dist

\* C20: when all distances of the batch are equal, a batch of one included,
\* every candidate the vector search returns has similarity_score 1.0 and the
\* similarity threshold removes none: every neighbour is returned, at its rank
C20_EqualDistancesGiveSimilarityOne ==
    \A r \in Requests :
        (req[r].vec = "done" /\ EqualDistances(r)) =>
            /\ \A k \in 1..Len(req[r].vector_results) :
                  req[r].vector_results[k].similarity_score = Scale
            /\ req[r].impl = "service" =>
                  /\ Len(req[r].vector_results) = Len(req[r].neighbours)
                  /\ \A i \in 1..Len(req[r].neighbours) :
                        /\ req[r].vector_results[i].search_rank = i
                        /\ req[r].vector_results[i].link
                              = product_metadata[req[r].neighbours[i].idx + 1].link

\* five neighbours at one distance, five candidates of similarity 1.0
C20_Witness ==
    \E r \in Requests :
        /\ req[r].impl = "service"
        /\ req[r].vec = "done"
        /\ EqualDistances(r)
        /\ Len(req[r].neighbours) = 5
        /\ Len(req[r].vector_results) = 5
        /\ \A k \in 1..5 : req[r].vector_results[k].similarity_score = Scale

\* the place in the neighbour order of the row a returned product came from
NeighbourPlace(r, product) ==
    CHOOSE i \in 1..Len(req[r].neighbours) :
        req[r].neighbours[i].idx >= 0
        /\ req[r].neighbours[i].idx < Len(product_metadata)
        /\ product_metadata[req[r].neighbours[i].idx + 1].link = product.link

\* C21: every candidate of the vector search carries as search_rank its 1-based
\* place in the neighbour order, so the ranks of the output are strictly
\* increasing; fusion and diversification keep each candidate's rank
C21_SearchRankIsNeighbourPlace ==
    \A r \in Requests :
        (req[r].impl = "service" /\ req[r].vec = "done") =>
            /\ \A k \in 1..Len(req[r].vector_results) :
                  req[r].vector_results[k].search_rank
                      = NeighbourPlace(r, req[r].vector_results[k])
            /\ \A k, l \in 1..Len(req[r].vector_results) :
                  k < l => req[r].vector_results[k].search_rank
                              < req[r].vector_results[l].search_rank
            /\ Responded(r) =>
                  \A k \in 1..Len(req[r].fused) :
                      req[r].fused[k].search_rank = NeighbourPlace(r, req[r].fused[k])

\* a fused list in which a candidate was moved and kept its rank
C21_Witness ==
    \E r \in Requests :
        /\ req[r].impl = "service"
        /\ Responded(r)
        /\ \E k \in 1..Len(req[r].fused) :
              /\ req[r].fused[k].search_rank # k
              /\ req[r].fused[k].search_rank = NeighbourPlace(r, req[r].fused[k])

\* a category was resolved for request r and its lowercased subcategory_name
\* is a substring of the lowercased category of product
CategoryApplies(r, product) ==
    /\ ~IsNone(req[r].selected_category)
    /\ "subcategory_name" \in DOMAIN req[r].selected_category
    /\ StrContains(StrLower(req[r].selected_category["subcategory_name"]),
                   StrLower(product["category"]))

\* C22: after fusion every candidate has category_match set to a boolean, true
\* exactly when a category was resolved and its lowercased subcategory_name is
\* a substring of the candidate's lowercased category, false otherwise
C22_CategoryMatchIsSet ==
    \A r \in Requests :
        Responded(r) =>
            \A k \in 1..Len(req[r].fused) :
                /\ "category_match" \in DOMAIN req[r].fused[k]
                /\ req[r].fused[k]["category_match"] = CategoryApplies(r, req[r].fused[k])

\* the number of distinct whitespace-separated terms of query that are
\* substrings of the lowercased title
DistinctTermMatches(query, title) ==
    LET terms == StrSplit(StrLower(query))
    IN  Cardinality({t \in {terms[i] : i \in 1..Len(terms)} :
                        StrContains(t, StrLower(title))})

\* the similarity the vector search gave the product of a fused candidate
BaseSimilarity(r, product) ==
    LET k == CHOOSE k \in 1..Len(req[r].vector_results) :
                 req[r].vector_results[k].link = product.link
    IN  req[r].vector_results[k].similarity_score

\* the fused candidate got the category boost
CategoryBoosted(product) ==
    "category_match" \in DOMAIN product /\ product["category_match"]

\* the score of a fused candidate
FusedScore(r, product) ==
    IF req[r].impl = "service" THEN product["final_score"] ELSE product["similarity_score"]

\* C23: the term-overlap boost multiplies the (possibly category-boosted) score
\* by 1 + m * 0.1, m being the number of distinct query terms found in the
\* lowercased title; a term repeated in the query counts once
C23_DistinctTermsBoost ==
    \A r \in Requests :
        Responded(r) =>
            \A k \in 1..Len(req[r].fused) :
                LET product == req[r].fused[k]
                    base == BaseSimilarity(r, product)
                    boosted == IF CategoryBoosted(product)
                               THEN (base * CATEGORY_BOOST_FACTOR) \div 10
                               ELSE base
                    before == IF req[r].impl = "service" THEN boosted
                              ELSE Min2(Scale, boosted)
                    m == DistinctTermMatches(req[r].query, product["title"])
                IN  FusedScore(r, product)
                        = Min2(Scale, (before * (10 + m * TERM_MATCH_BOOST)) \div 10)

\* the list of request r as the sort of the fusion step leaves it
SortedList(r) ==
    IF req[r].impl = "service"
    THEN ServiceSorted(req[r].vector_results, req[r].selected_category, req[r].query)
    ELSE ServerSorted(req[r].vector_results, req[r].selected_category, req[r].query)

\* C24: the list the fusion step sorts is in non-increasing order of score,
\* and two candidates of equal score (several clamped to 1.0 included) stand
\* in ascending order of their search_rank
C24_SortedTiesByRank ==
    \A r \in Requests :
        Responded(r) =>
            LET sorted == SortedList(r)
            IN  \A k, l \in 1..Len(sorted) :
                    k < l =>
                        \/ FusedScore(r, sorted[k]) > FusedScore(r, sorted[l])
                        \/ /\ FusedScore(r, sorted[k]) = FusedScore(r, sorted[l])
                           /\ sorted[k].search_rank < sorted[l].search_rank

\* the places of list whose candidate is the first of its category
FirstOfCategory(list) ==
    {i \in 1..Len(list) : \A j \in 1..(i - 1) : list[j].category # list[i].category}

\* the candidates of list at the places of keep, in their order in list
Pick(list, keep) ==
    LET marked == [i \in 1..Len(list) |-> [at |-> i, kept |-> i \in keep]]
        chosen == SelectSeq(marked, LAMBDA m : m.kept)
    IN  [k \in 1..Len(chosen) |-> list[chosen[k].at]]

\* C25: diversify returns an input of length 3 or less unchanged; for a longer
\* input it returns the candidates that are the first of their category, in
\* input order and however many, followed by all the others in their input
\* order; an input of one category comes back in input order
C25_FirstOfEachCategoryThenRest ==
    unit.op \in {"diversify", "server_diversify"} =>
        LET first == FirstOfCategory(unit.arg)
        IN  unit.result =
                IF Len(unit.arg) <= 3 THEN unit.arg
                ELSE Pick(unit.arg, first) \o Pick(unit.arg, (1..Len(unit.arg)) \ first)

\* the answer of the classifier is one record with a subcategory_name
SingleValidRecord(answer) ==
    answer.type = "dict" /\ "subcategory_name" \in DOMAIN answer.d
    /\ "error" \notin DOMAIN answer.d

\* C26: a classifier answer counts as a match only when it is a single valid
\* candidate record; a list of records, a record without subcategory_name, an
\* error object, an empty or unparseable body are classification failures and
\* give no selected_category
C26_OnlySingleRecordAccepted ==
    (unit.op = "category_choice" /\ ~SingleValidRecord(unit.answer)) =>
        (unit.status # 200 \/ IsNone(unit.result))

\* C27: a selected_category that a search returns is one of the candidates
\* the retriever returned for the query (same subcategory_url); the classifier
\* chooses among the candidates and never brings in another category
C27_SelectedAmongRetrieved ==
    \A r \in Requests :
        (Responded(r) /\ ~IsNone(req[r].selected_category)) =>
            \E i \in 1..Len(req[r].retrieved) :
                DictGet(req[r].retrieved[i], "subcategory_url", NoneVal)
                    = DictGet(req[r].selected_category, "subcategory_url", NoneVal)

\* the distance of the neighbour a returned product came from
NeighbourDistance(r, product) == req[r].neighbours[NeighbourPlace(r, product)].dist

\* the index answered the SearchService request r with a non-empty batch
BatchReturned(r) ==
    req[r].impl = "service" /\ req[r].vec \in {"done", "failed"} /\ req[r].neighbours # <<>>

\* C28: in a non-empty batch a neighbour at the minimum distance has similarity
\* 1.0 and, unless all distances are equal, a neighbour at the maximum distance
\* has similarity 0.0 and is not returned; so the vector search returns a
\* non-empty list whenever the nearest neighbour has a valid row id
C28_NearestIsReturned ==
    \A r \in Requests :
        BatchReturned(r) =>
            LET dists == Distances(req[r].neighbours)
            IN  /\ \A k \in 1..Len(req[r].vector_results) :
                      LET product == req[r].vector_results[k]
                      IN  /\ NeighbourDistance(r, product) = SeqMin(dists)
                                => product.similarity_score = Scale
                          /\ SeqMax(dists) > SeqMin(dists)
                                => NeighbourDistance(r, product) < SeqMax(dists)
                /\ ~OutOfRange(r, 1) =>
                      (req[r].vec = "done" /\ req[r].vector_results # <<>>)

\* the search_rank values of a list of candidates
SearchRanks(list) == {list[k].search_rank : k \in 1..Len(list)}

C30_IndexAndMetadataAligned ==
    /\ (unit.op = "generate_embeddings_batch" /\ ~unit.raised) =>
          /\ Len(unit.embeddings) = Len(unit.metadata)
          /\ \A i \in 1..Len(unit.metadata) :
                unit.embeddings[i]
                    = Encode(<<EMBEDDER_PASSAGE_PREFIX \o BuildEmbeddingText(unit.metadata[i])>>)[1]
    /\ \A r \in Requests :
          (req[r].impl = "server" /\ req[r].neighbours # <<>>) =>
              /\ Len(product_metadata) = faiss_index.ntotal
              /\ \A i \in 1..Len(req[r].neighbours) :
                    req[r].neighbours[i].idx >= 0
                        => req[r].neighbours[i].idx < Len(product_metadata)

====
